---- MODULE Spec2Model ----
(***************************************************************************)
(* Model of src/PJ.py: the LuaCompiler node transformer and its driver     *)
(* compile_lua.                                                            *)
(*                                                                         *)
(* Python objects live in a heap: a sequence of node records, a node's     *)
(* identity being its index (None is 0).  A child slot holds an index, a   *)
(* list slot a sequence of indices.  Operator and context nodes carry no   *)
(* fields and are written as strings.  A Constant's payload is written in  *)
(* two fields: value (the literal, as text) and node (the index of an AST  *)
(* node stored as the payload, 0 when the payload is a literal).           *)
(*                                                                         *)
(* Source text is written as a term: the same records with the children    *)
(* nested instead of referenced.  ast.parse builds the heap from a term,   *)
(* and the serializer is modelled by reading a term back from the heap.    *)
(***************************************************************************)
EXTENDS Integers, Sequences, FiniteSets, TLC

VARIABLES code, pc, heap, root, scope_stack, log, outcome, compiled_code, second

vars == <<code, pc, heap, root, scope_stack, log, outcome, compiled_code, second>>

----------------------------------------------------------------------------
(* Node constructors (terms and heap records share them).                  *)

None == 0
NoneT == [kind |-> "None"]
NoExc == "none"

Module(body) == [kind |-> "Module", body |-> body]
FunctionDef(name, body) == [kind |-> "FunctionDef", name |-> name, body |-> body]
If(test, body, orelse) == [kind |-> "If", test |-> test, body |-> body, orelse |-> orelse]
For(target, iter, body) == [kind |-> "For", target |-> target, iter |-> iter, body |-> body, orelse |-> <<>>]
While(test, body, orelse) == [kind |-> "While", test |-> test, body |-> body, orelse |-> orelse]
Assign(targets, value) == [kind |-> "Assign", targets |-> targets, value |-> value]
AugAssign(target, op, value) == [kind |-> "AugAssign", target |-> target, op |-> op, value |-> value]
Return(value) == [kind |-> "Return", value |-> value]
Expr(value) == [kind |-> "Expr", value |-> value]
Pass == [kind |-> "Pass"]
BinOp(left, op, right) == [kind |-> "BinOp", left |-> left, op |-> op, right |-> right]
UnaryOp(op, operand) == [kind |-> "UnaryOp", op |-> op, operand |-> operand]
Compare(left, ops, comparators) == [kind |-> "Compare", left |-> left, ops |-> ops, comparators |-> comparators]
Call(func, args) == [kind |-> "Call", func |-> func, args |-> args]
Name(id, ctx) == [kind |-> "Name", id |-> id, ctx |-> ctx]
Attribute(value, attr) == [kind |-> "Attribute", value |-> value, attr |-> attr]
Tuple(elts) == [kind |-> "Tuple", elts |-> elts]
Constant(vtype, value, node) == [kind |-> "Constant", vtype |-> vtype, value |-> value, node |-> node]

(* isinstance(x, ast.Str): a Constant whose payload is a str.              *)
IsStr(n) == n.kind = "Constant" /\ n.vtype = "str"

(* The AST-valued fields of each node class, in the order of _fields, with *)
(* whether the slot is a list.                                             *)
F(name, list) == [name |-> name, list |-> list]

Fields(kind) ==
  CASE kind = "Module" -> <<F("body", TRUE)>>
    [] kind = "FunctionDef" -> <<F("body", TRUE)>>
    [] kind = "If" -> <<F("test", FALSE), F("body", TRUE), F("orelse", TRUE)>>
    [] kind = "For" -> <<F("target", FALSE), F("iter", FALSE), F("body", TRUE), F("orelse", TRUE)>>
    [] kind = "While" -> <<F("test", FALSE), F("body", TRUE), F("orelse", TRUE)>>
    [] kind = "Assign" -> <<F("targets", TRUE), F("value", FALSE)>>
    [] kind = "AugAssign" -> <<F("target", FALSE), F("value", FALSE)>>
    [] kind = "Return" -> <<F("value", FALSE)>>
    [] kind = "Expr" -> <<F("value", FALSE)>>
    [] kind = "BinOp" -> <<F("left", FALSE), F("right", FALSE)>>
    [] kind = "UnaryOp" -> <<F("operand", FALSE)>>
    [] kind = "Compare" -> <<F("left", FALSE), F("comparators", TRUE)>>
    [] kind = "Call" -> <<F("func", FALSE), F("args", TRUE)>>
    [] kind = "Attribute" -> <<F("value", FALSE)>>
    [] kind = "Tuple" -> <<F("elts", TRUE)>>
    [] kind = "Constant" -> <<F("node", FALSE)>>
    [] OTHER -> <<>>

(* hasattr(node, 'test') and hasattr(node, 'body'): the statements an      *)
(* orelse entry is read as a branch of.                                    *)
HasTestAndBody(kind) == kind \in {"If", "While"}
HasOrelse(kind) == kind \in {"If", "While", "For"}

----------------------------------------------------------------------------
(* ast.parse: allocate the nodes of a term, children first.                *)

RECURSIVE Parse(_, _), ParseFields(_, _, _), ParseList(_, _, _, _)

ParseList(h, ts, j, ids) ==
  IF j > Len(ts) THEN [heap |-> h, ids |-> ids]
  ELSE LET r == Parse(h, ts[j])
       IN ParseList(r.heap, ts, j + 1, Append(ids, r.id))

ParseFields(h, t, i) ==
  IF i > Len(Fields(t.kind)) THEN [heap |-> h, rec |-> t]
  ELSE LET f == Fields(t.kind)[i]
       IN IF f.list
          THEN LET r == ParseList(h, t[f.name], 1, <<>>)
               IN ParseFields(r.heap, [t EXCEPT ![f.name] = r.ids], i + 1)
          ELSE LET r == Parse(h, t[f.name])
               IN ParseFields(r.heap, [t EXCEPT ![f.name] = r.id], i + 1)

Parse(h, t) ==
  IF t = NoneT THEN [heap |-> h, id |-> None]
  ELSE LET r == ParseFields(h, t, 1)
       IN [heap |-> Append(r.heap, r.rec), id |-> Len(r.heap) + 1]

(* The serializer's view of a tree: the term under a node.                 *)
RECURSIVE ReadBack(_, _), ReadFields(_, _, _)

ReadFields(h, t, i) ==
  IF i > Len(Fields(t.kind)) THEN t
  ELSE LET f == Fields(t.kind)[i]
       IN IF f.list
          THEN ReadFields(h, [t EXCEPT ![f.name] = [j \in 1..Len(t[f.name]) |-> ReadBack(h, t[f.name][j])]], i + 1)
          ELSE ReadFields(h, [t EXCEPT ![f.name] = ReadBack(h, t[f.name])], i + 1)

ReadBack(h, n) == IF n = None THEN NoneT ELSE ReadFields(h, h[n], 1)

----------------------------------------------------------------------------
(* The transformer.  A visitor takes the walk's state s (the heap, the     *)
(* LuaCompiler object's scope_stack, the call log) and a node, and returns *)
(* the state with ret (the node or the list of nodes it returns, as a      *)
(* sequence) and exc (the exception it raised, if any).                    *)
(*                                                                         *)
(* List slots are kept by value in their node.  The code shares a list     *)
(* object only between a node it builds and the node it discards           *)
(* (if_stmt.body, loop_body), so nothing reads the other alias.            *)

Returns(s, ids) == [s EXCEPT !.ret = ids]
Raises(s, e) == [s EXCEPT !.exc = e, !.ret = <<>>]
New(s, rec) == [s EXCEPT !.heap = Append(@, rec)]
SetField(s, n, f, v) == [s EXCEPT !.heap[n] = [@ EXCEPT ![f] = v]]

RECURSIVE visit(_, _), generic_visit(_, _), VisitFields(_, _, _), VisitValues(_, _, _, _)

(* ast.NodeTransformer.generic_visit, the list branch: each value of the   *)
(* old list is visited and what it returns is appended to (a node) or      *)
(* extends (a list) new_values.                                            *)
VisitValues(s, old_value, j, new_values) ==
  IF j > Len(old_value) THEN Returns(s, new_values)
  ELSE LET r == visit(s, old_value[j])
       IN IF r.exc # NoExc THEN r
          ELSE VisitValues(r, old_value, j + 1, new_values \o r.ret)

VisitFields(s, n, i) ==
  IF i > Len(Fields(s.heap[n].kind)) THEN Returns(s, <<n>>)
  ELSE LET f == Fields(s.heap[n].kind)[i]
           old_value == s.heap[n][f.name]
       IN IF f.list
          THEN LET r == VisitValues(s, old_value, 1, <<>>)
               IN IF r.exc # NoExc THEN r
                  ELSE VisitFields(SetField(r, n, f.name, r.ret), n, i + 1)
          ELSE IF old_value = None THEN VisitFields(s, n, i + 1)
          ELSE LET r == visit(s, old_value)
               IN IF r.exc # NoExc THEN r
                  ELSE VisitFields(SetField(r, n, f.name, r.ret[1]), n, i + 1)

generic_visit(s, n) == VisitFields(s, n, 1)

(* visit_FunctionDef (the second definition, which is the one in effect;   *)
(* the first, at lines 8-16, is the same text).                            *)
visit_FunctionDef(s, n) ==
  LET b == Len(s.heap)
      extra_stmt == b + 4
      made == <<Name("print", "Load"),
                Constant("str", "This is an additional statement.", None),
                Call(b + 1, <<b + 2>>),
                Expr(b + 3)>>
  IN generic_visit([s EXCEPT !.heap = [@ \o made EXCEPT ![n].body = <<extra_stmt>> \o @]], n)

(* current_if.orelse.append(x)                                             *)
AppendOrelse(s, current_if, x) ==
  [s EXCEPT !.heap[current_if].orelse = Append(@, x)]

(* visit_If: the loop over node.orelse, entry j, with current_if.          *)
RECURSIVE IfChain(_, _, _, _)
IfChain(s, orelse_list, j, current_if) ==
  IF j > Len(orelse_list) THEN s
  ELSE IF ~HasOrelse(s.heap[current_if].kind) THEN Raises(s, "AttributeError")
  ELSE IF s.heap[orelse_list[j]].kind = "If"
  THEN IfChain(AppendOrelse(s, current_if, orelse_list[j]), orelse_list, j + 1, orelse_list[j])
  ELSE IF ~HasTestAndBody(s.heap[orelse_list[j]].kind) THEN Raises(s, "AttributeError")
  ELSE IfChain(AppendOrelse(New(s, If(s.heap[orelse_list[j]].test, s.heap[orelse_list[j]].body, <<>>)),
                            current_if, Len(s.heap) + 1),
               orelse_list, j + 1,
               Append(s.heap[current_if].orelse, Len(s.heap) + 1)[1])

visit_If(s, n) ==
  IF Len(s.heap[n].orelse) = 0 THEN Returns(s, <<n>>)
  ELSE Returns(IfChain(New(s, If(s.heap[n].test, s.heap[n].body, <<>>)),
                       s.heap[n].orelse, 1, Len(s.heap) + 1),
               <<Len(s.heap) + 1>>)

visit_For(s, n) ==
  LET node == s.heap[n]
      h == s.heap
  IN IF h[node.target].kind # "Name" THEN Raises(s, "AttributeError")
     ELSE IF h[node.iter].kind # "Call" THEN Raises(s, "AttributeError")
     ELSE IF Len(h[node.iter].args) < 2 THEN Raises(s, "IndexError")
     ELSE
       LET target == h[node.target].id
           args == h[node.iter].args
           b == Len(h)
           start == b + 1
           stop == b + 2
           init_assign == b + 4
           loop_condition == b + 6
           head == <<Constant("AST", "", args[1]),
                     Constant("AST", "", args[2]),
                     Name(target, "Store"),
                     Assign(<<b + 3>>, start),
                     Name(target, "Load"),
                     Compare(b + 5, <<"Lt">>, <<stop>>)>>
           step == IF Len(args) > 2 THEN b + 7 ELSE None
           incr == IF step # None
                   THEN <<Constant("AST", "", args[3]),
                          Name(target, "Store"),
                          Name(target, "Load"),
                          BinOp(b + 9, "Add", step),
                          Assign(<<b + 8>>, b + 10)>>
                   ELSE <<Name(target, "Store"),
                          Constant("int", "1", None),
                          AugAssign(b + 7, "Add", b + 8)>>
           loop_body == Append(node.body, b + 6 + Len(incr))
           while_loop == b + 6 + Len(incr) + 1
       IN Returns([s EXCEPT !.heap = @ \o head \o incr \o <<While(loop_condition, loop_body, <<>>)>>],
                  <<init_assign, while_loop>>)

(* A split that gives each statement its own copy of the value node.       *)
RECURSIVE SplitTargetsCopy(_, _, _, _)
SplitTargetsCopy(s, node, j, assign_stmts) ==
  IF j > Len(node.targets) THEN Returns(s, assign_stmts)
  ELSE SplitTargetsCopy(New(New(s, s.heap[node.value]), Assign(<<node.targets[j]>>, Len(s.heap) + 1)),
                        node, j + 1, Append(assign_stmts, Len(s.heap) + 2))

RECURSIVE SplitTargets(_, _, _, _)
SplitTargets(s, node, j, assign_stmts) ==
  IF j > Len(node.targets) THEN Returns(s, assign_stmts)
  ELSE SplitTargets(New(s, Assign(<<node.targets[j]>>, node.value)), node, j + 1,
                    Append(assign_stmts, Len(s.heap) + 1))

visit_Assign(s, n) ==
  IF Len(s.heap[n].targets) > 1
  THEN SplitTargets(s, s.heap[n], 1, <<>>)
  ELSE generic_visit(s, n)

visit_BinOp(s, n) ==
  IF s.heap[n].op = "FloorDiv"
  THEN generic_visit(SetField(s, n, "op", "Div"), n)
  ELSE generic_visit(s, n)

visit_UnaryOp(s, n) ==
  IF s.heap[n].op = "Not"
  THEN generic_visit(SetField(s, n, "op", "Not"), n)
  ELSE generic_visit(s, n)

visit_Compare(s, n) ==
  IF s.heap[n].ops[1] = "In"
  THEN generic_visit(SetField(s, n, "ops", [s.heap[n].ops EXCEPT ![1] = "Eq"]), n)
  ELSE generic_visit(s, n)

(* A visit_Call that decides on the last argument instead of the first.    *)
visit_CallLastArg(s, n) ==
  LET node == s.heap[n]
      func == s.heap[node.func]
  IN IF func.kind = "Name" /\ func.id = "len"
     THEN IF Len(node.args) = 0 THEN Raises(s, "IndexError")
          ELSE IF IsStr(s.heap[node.args[Len(node.args)]])
          THEN generic_visit(SetField(s, node.func, "id", "string.len"), n)
          ELSE generic_visit(SetField(s, node.func, "id", "table.getn"), n)
     ELSE generic_visit(s, n)

visit_Call(s, n) ==
  LET node == s.heap[n]
      func == s.heap[node.func]
  IN IF func.kind = "Name" /\ func.id = "len"
     THEN IF Len(node.args) = 0 THEN Raises(s, "IndexError")
          ELSE IF IsStr(s.heap[node.args[1]])
          THEN generic_visit(SetField(s, node.func, "id", "string.len"), n)
          ELSE generic_visit(SetField(s, node.func, "id", "table.getn"), n)
     ELSE generic_visit(s, n)

visit_Return(s, n) ==
  IF Len(s.scope_stack) = 0 THEN Returns(s, <<n>>)
  ELSE IF s.scope_stack[Len(s.scope_stack)] = "function"
  THEN LET b == Len(s.heap)
           assign_stmt == b + 2
           made == <<Name("_retval", "Store"),
                     Assign(<<b + 1>>, s.heap[n].value),
                     Name("_retval", "Load"),
                     Return(b + 3)>>
       IN Returns([s EXCEPT !.heap = @ \o made], <<assign_stmt, b + 4>>)
  ELSE Returns(s, <<n>>)

(* The visitor classes LuaCompiler defines; every other class falls to     *)
(* generic_visit.                                                          *)
Visitors == {"FunctionDef", "If", "For", "Assign", "BinOp", "UnaryOp", "Compare", "Call", "Return"}

Dispatch(s, n) ==
  LET kind == s.heap[n].kind
  IN CASE kind = "FunctionDef" -> visit_FunctionDef(s, n)
       [] kind = "If" -> visit_If(s, n)
       [] kind = "For" -> visit_For(s, n)
       [] kind = "Assign" -> visit_Assign(s, n)
       [] kind = "BinOp" -> visit_BinOp(s, n)
       [] kind = "UnaryOp" -> visit_UnaryOp(s, n)
       [] kind = "Compare" -> visit_Compare(s, n)
       [] kind = "Call" -> visit_Call(s, n)
       [] kind = "Return" -> visit_Return(s, n)
       [] OTHER -> generic_visit(s, n)

(* ast.NodeVisitor.visit.  Each call of a LuaCompiler visitor that returns *)
(* is recorded in the log: the node, the heap and the scope stack at the   *)
(* call, and what the visitor returned.                                    *)
visit(s, n) ==
  LET r == Dispatch(s, n)
  IN IF r.exc # NoExc \/ s.heap[n].kind \notin Visitors THEN r
     ELSE [r EXCEPT !.log = Append(@, [rule |-> s.heap[n].kind, node |-> n, heap |-> s.heap,
                                       stack |-> s.scope_stack, ret |-> r.ret])]

(* LuaCompiler().visit(tree) on a heap: a fresh object, so an empty        *)
(* scope_stack.                                                            *)
Transform(h, r) ==
  visit([heap |-> h, scope_stack |-> <<>>, log |-> <<>>, ret |-> <<>>, exc |-> NoExc], r)

----------------------------------------------------------------------------
(* The source programs compile_lua is run on.                              *)

MaxTargets == 3      \* targets of one assignment
MaxArgs == 2         \* arguments of a call
MaxRangeArgs == 3    \* arguments of the call a for loop iterates over
MaxBody == 2         \* statements of a nested body
MaxOrelse == 2       \* entries of an orelse list
MaxStmts == 2        \* statements of a module made of several

SeqsUpTo(S, n) == UNION {[1..k -> S] : k \in 0..n}
Prefix(q, n) == [j \in 1..(IF n < Len(q) THEN n ELSE Len(q)) |-> q[j]]

X == Name("x", "Load")
Y == Name("y", "Load")
Num(v) == Constant("int", v, NoneT)
Str(v) == Constant("str", v, NoneT)
FloorDivX == BinOp(X, "FloorDiv", Num("2"))
LenOf(args) == Call(Name("len", "Load"), args)

TargetName(j) == CASE j = 1 -> "a" [] j = 2 -> "b" [] j = 3 -> "c" [] OTHER -> "t"
Targets(k) == [j \in 1..k |-> Name(TargetName(j), "Store")]

Calls ==
  {Call(Name(f, "Load"), args) : f \in {"len", "print"}, args \in SeqsUpTo({X, Str("s")}, MaxArgs)}
  \cup {Call(Attribute(X, "len"), <<Str("s")>>), Call(LenOf(<<Str("s")>>), <<X>>)}

Exprs ==
  {X, Num("1"), Str("s"), FloorDivX, BinOp(X, "Add", Num("1")),
   BinOp(FloorDivX, "Add", LenOf(<<Y>>)),
   Compare(X, <<"In">>, <<Y>>), Compare(X, <<"Lt", "In">>, <<Num("1"), Y>>),
   Compare(FloorDivX, <<"Lt">>, <<Y>>),
   UnaryOp("Not", X), UnaryOp("USub", FloorDivX)}
  \cup Calls

Vals == {Num("1"), FloorDivX, LenOf(<<Str("s")>>)}

SimpleStmts ==
  {Expr(e) : e \in Exprs}
  \cup {Assign(Targets(k), v) : k \in 1..MaxTargets, v \in Vals}
  \cup {Return(v) : v \in Vals \cup {NoneT}}
  \cup {Pass}

(* The statements nested bodies are made of.                               *)
Inner == {Pass, Expr(FloorDivX), Assign(Targets(2), LenOf(<<Str("s")>>)), Return(FloorDivX)}
Bodies == SeqsUpTo(Inner, MaxBody) \ {<<>>}

RangeArgs == {<<Num("1"), Num("5"), Num("2"), Num("9")>>, <<FloorDivX, LenOf(<<X>>), Y, X>>}
Iters ==
  {Call(Name("range", "Load"), Prefix(a, k)) : a \in RangeArgs, k \in 0..MaxRangeArgs}
  \cup {Name("xs", "Load"), Call(Name("zip", "Load"), <<X, Y>>)}
Range15 == Call(Name("range", "Load"), <<Num("1"), Num("5")>>)

Fors ==
  {For(Name("i", "Store"), it, b) : it \in Iters, b \in Bodies}
  \cup {For(Tuple(<<Name("i", "Store"), Name("j", "Store")>>), Range15, <<Pass>>)}

OrelseEntries ==
  {If(Y, <<Pass>>, <<>>),
   If(Y, <<Expr(FloorDivX)>>, <<If(X, <<Pass>>, <<>>)>>),
   If(Y, <<Pass>>, <<Pass>>),
   While(Y, <<Pass>>, <<>>),
   Pass,
   Expr(FloorDivX)}

Ifs ==
  {If(t, b, <<>>) : t \in {X, Compare(FloorDivX, <<"Lt">>, <<Y>>)}, b \in Bodies}
  \cup {If(X, <<b>>, o) : b \in Inner, o \in SeqsUpTo(OrelseEntries, MaxOrelse) \ {<<>>}}

Whiles == {While(X, b, <<>>) : b \in Bodies}

FunctionDefs ==
  {FunctionDef("f", b) : b \in Bodies}
  \cup {FunctionDef("f", <<c>>) :
          c \in {If(X, <<Return(X)>>, <<>>),
                 For(Name("i", "Store"), Range15, <<Return(X)>>),
                 While(X, <<Return(X)>>, <<>>),
                 FunctionDef("g", <<Return(X)>>)}}

Stmts == SimpleStmts \cup Fors \cup Ifs \cup Whiles \cup FunctionDefs

(* The statements modules of several statements are made of.               *)
Several ==
  {Pass, Assign(Targets(2), Num("1")), For(Name("i", "Store"), Range15, <<Pass>>),
   FunctionDef("f", <<Return(X)>>)}

(* Text that does not parse (the example at lines 152-186 is such).        *)
BadText == [kind |-> "SyntaxError"]

Sources ==
  {Module(<<st>>) : st \in Stmts}
  \cup {Module(b) : b \in SeqsUpTo(Several, MaxStmts)}
  \cup {BadText}

----------------------------------------------------------------------------
(* compile_lua, step by step, and a second run of the transformer on the   *)
(* tree the first run produced.                                            *)

NoRun == [exc |-> NoExc, tree |-> NoneT]

Init ==
  /\ code \in Sources
  /\ pc = "start"
  /\ heap = <<>>
  /\ root = None
  /\ scope_stack = <<>>
  /\ log = <<>>
  /\ outcome = "running"
  /\ compiled_code = NoneT
  /\ second = NoRun

(* parsed_ast = ast.parse(code)                                            *)
ParseOk ==
  /\ pc = "start"
  /\ code # BadText
  /\ LET r == Parse(<<>>, code)
     IN /\ heap' = r.heap
        /\ root' = r.id
  /\ pc' = "parsed"
  /\ UNCHANGED <<code, scope_stack, log, outcome, compiled_code, second>>

(* ast.parse raises SyntaxError: it is printed and None is returned.       *)
ParseSyntaxError ==
  /\ pc = "start"
  /\ code = BadText
  /\ pc' = "done"
  /\ outcome' = "None"
  /\ UNCHANGED <<code, heap, root, scope_stack, log, compiled_code, second>>

(* transformed_ast = LuaCompiler().visit(parsed_ast)                       *)
TransformOk ==
  /\ pc = "parsed"
  /\ LET r == Transform(heap, root)
     IN /\ r.exc = NoExc
        /\ heap' = r.heap
        /\ root' = r.ret[1]
        /\ scope_stack' = r.scope_stack
        /\ log' = r.log
  /\ pc' = "transformed"
  /\ UNCHANGED <<code, outcome, compiled_code, second>>

(* A visitor raises: compile_lua catches SyntaxError only, so the          *)
(* exception leaves compile_lua.                                           *)
TransformRaises ==
  /\ pc = "parsed"
  /\ LET r == Transform(heap, root)
     IN /\ r.exc # NoExc
        /\ outcome' = r.exc
  /\ pc' = "raised"
  /\ UNCHANGED <<code, heap, root, scope_stack, log, compiled_code, second>>

(* compiled_code = astor.to_source(transformed_ast); return compiled_code  *)
ToSource ==
  /\ pc = "transformed"
  /\ compiled_code' = ReadBack(heap, root)
  /\ outcome' = "code"
  /\ pc' = "done"
  /\ UNCHANGED <<code, heap, root, scope_stack, log, second>>

(* The transformer applied once more, to the tree of the first run.        *)
SecondRun ==
  /\ pc = "done"
  /\ outcome = "code"
  /\ LET r == Transform(heap, root)
     IN second' = IF r.exc # NoExc THEN [exc |-> r.exc, tree |-> NoneT]
                  ELSE [exc |-> NoExc, tree |-> ReadBack(r.heap, r.ret[1])]
  /\ pc' = "again"
  /\ UNCHANGED <<code, heap, root, scope_stack, log, outcome, compiled_code>>

Next ==
  \/ ParseOk
  \/ ParseSyntaxError
  \/ TransformOk
  \/ TransformRaises
  \/ ToSource
  \/ SecondRun

Spec == Init /\ [][Next]_vars

TypeOK ==
  /\ pc \in {"start", "parsed", "transformed", "raised", "done", "again"}
  /\ outcome \in {"running", "None", "code", "AttributeError", "IndexError"}

----------------------------------------------------------------------------
(* Vocabulary of the properties.                                           *)

(* The first run of the transformer has returned.                          *)
Transformed == pc \in {"transformed", "done", "again"}

(* The tree ast.parse built, before any visitor touched it.                *)
Parsed == Parse(<<>>, code)

Logged(rule) == {i \in 1..Len(log) : log[i].rule = rule}

(* Every term under a term, itself included.                               *)
RECURSIVE SubTerms(_)
SubTerms(t) ==
  {t} \cup UNION {IF Fields(t.kind)[i].list
                  THEN UNION {SubTerms(t[Fields(t.kind)[i].name][j]) : j \in 1..Len(t[Fields(t.kind)[i].name])}
                  ELSE SubTerms(t[Fields(t.kind)[i].name]) : i \in 1..Len(Fields(t.kind))}

IsFloorDiv(t) == t.kind = "BinOp" /\ t.op = "FloorDiv"
IsLenCall(t) == t.kind = "Call" /\ t.func.kind = "Name" /\ t.func.id = "len"
HasFloorDiv(t) == \E u \in SubTerms(t) : IsFloorDiv(u)
HasKind(t, kind) == \E u \in SubTerms(t) : u.kind = kind

(* The frames enclosing each node of a tree: a FunctionDef's body is a     *)
(* function frame, a For's or While's body a loop frame.                   *)
FrameOf(kind, field, frames) ==
  IF kind = "FunctionDef" /\ field = "body" THEN Append(frames, "function")
  ELSE IF kind \in {"For", "While"} /\ field = "body" THEN Append(frames, "loop")
  ELSE frames

RECURSIVE Walk(_, _, _)
Walk(h, n, frames) ==
  IF n = None THEN {}
  ELSE {[id |-> n, frames |-> frames]}
       \cup UNION {LET f == Fields(h[n].kind)[i]
                       inner == FrameOf(h[n].kind, f.name, frames)
                   IN IF f.list
                      THEN UNION {Walk(h, h[n][f.name][j], inner) : j \in 1..Len(h[n][f.name])}
                      ELSE Walk(h, h[n][f.name], inner)
                   : i \in 1..Len(Fields(h[n].kind))}

(* The chain of If nodes from n through the first entry of each orelse.    *)
RECURSIVE ChainOf(_, _)
ChainOf(h, n) ==
  IF h[n].kind = "If" /\ Len(h[n].orelse) > 0 /\ h[h[n].orelse[1]].kind = "If"
  THEN <<n>> \o ChainOf(h, h[n].orelse[1])
  ELSE <<n>>

----------------------------------------------------------------------------
(* C4: visit_Assign, called on an Assign with k > 1 targets, returns k     *)
(* Assign statements in target order, the i-th with the single target ti,  *)
(* all holding the very same value node; called on an Assign with one      *)
(* target it returns that node, still with its one target.                 *)
C4_AssignSplit ==
  Transformed =>
    \A i \in Logged("Assign") :
      LET e == log[i]
          node == e.heap[e.node]
          k == Len(node.targets)
      IN IF k > 1
         THEN /\ Len(e.ret) = k
              /\ \A j \in 1..k :
                   /\ heap[e.ret[j]].kind = "Assign"
                   /\ heap[e.ret[j]].targets = <<node.targets[j]>>
                   /\ heap[e.ret[j]].value = node.value
         ELSE /\ e.ret = <<e.node>>
              /\ heap[e.node].targets = node.targets

C4_Witness ==
  /\ pc = "done"
  /\ \E i \in Logged("Assign") :
       /\ Len(log[i].heap[log[i].node].targets) >= 3
       /\ Len(log[i].ret) >= 3
       /\ heap[log[i].heap[log[i].node].value].kind = "Call"

(* C9: visit_Call, called on a Call whose callee is the name len, sets the *)
(* callee's id, in the same Name node, to string.len when the first        *)
(* argument is a string literal and to table.getn when it is any other     *)
(* node; any other callee stays the node and the name it was.              *)
C9_LenRename ==
  Transformed =>
    \A i \in Logged("Call") :
      LET e == log[i]
          node == e.heap[e.node]
          func == e.heap[node.func]
      IN /\ e.ret = <<e.node>>
         /\ heap[e.node].func = node.func
         /\ IF func.kind = "Name" /\ func.id = "len"
            THEN /\ Len(node.args) > 0
                 /\ heap[node.func] =
                      [func EXCEPT !.id = IF IsStr(e.heap[node.args[1]]) THEN "string.len" ELSE "table.getn"]
            ELSE IF func.kind = "Name" THEN heap[node.func] = func
            ELSE heap[node.func].kind = func.kind

C9_Witness ==
  /\ pc = "done"
  /\ \E i \in Logged("Call") :
       LET node == log[i].heap[log[i].node]
       IN /\ log[i].heap[node.func] = Name("len", "Load")
          /\ Len(node.args) >= 2
          /\ IsStr(log[i].heap[node.args[1]])
          /\ ~IsStr(log[i].heap[node.args[2]])
          /\ heap[node.func].id = "string.len"

(* C1: a Return whose innermost enclosing frame is a function is replaced, *)
(* where it stood, by an Assign of its expression to _retval followed by a *)
(* Return of the name _retval.                                             *)
IsRetvalPair(h, ret, value) ==
  /\ Len(ret) = 2
  /\ h[ret[1]].kind = "Assign"
  /\ Len(h[ret[1]].targets) = 1
  /\ h[h[ret[1]].targets[1]] = Name("_retval", "Store")
  /\ h[ret[1]].value = value
  /\ h[ret[2]].kind = "Return"
  /\ h[ret[2]].value # None
  /\ h[h[ret[2]].value] = Name("_retval", "Load")

FunctionReturns ==
  {w \in Walk(Parsed.heap, Parsed.id, <<>>) :
     /\ Parsed.heap[w.id].kind = "Return"
     /\ w.frames # <<>>
     /\ w.frames[Len(w.frames)] = "function"}

C1_ReturnExpands ==
  Transformed =>
    \A w \in FunctionReturns :
      /\ \E i \in Logged("Return") :
           log[i].node = w.id /\ IsRetvalPair(heap, log[i].ret, Parsed.heap[w.id].value)
      /\ \A v \in Walk(heap, root, <<>>) : v.id # w.id

(* C8: the scope stack is empty when the walk ends, and at every visitor   *)
(* call its depth is the number of function and loop bodies the walk is    *)
(* inside of.                                                              *)
C8_ScopeBalanced ==
  Transformed =>
    /\ scope_stack = <<>>
    /\ \A w \in Walk(Parsed.heap, Parsed.id, <<>>) :
         \A i \in 1..Len(log) :
           log[i].node = w.id => Len(log[i].stack) = Len(w.frames)

(* C2: visit_For, called on a For over range(start, stop[, s]) with loop   *)
(* variable var, returns [Assign(var, start), While(var < stop, body +     *)
(* [increment])], start and stop being the argument expressions            *)
(* themselves and the increment AugAssign(var, +=, 1), or                  *)
(* Assign(var, BinOp(var, +, s)) when s is given.                          *)
IsRangeCall(h, n) ==
  /\ h[n].kind = "Call"
  /\ h[h[n].func] = Name("range", "Load")
  /\ Len(h[n].args) \in {2, 3}

Increment(var, args) ==
  IF Len(args) = 2
  THEN AugAssign(Name(var, "Store"), "Add", Num("1"))
  ELSE Assign(<<Name(var, "Store")>>, BinOp(Name(var, "Load"), "Add", args[3]))

C2_ForRewrite ==
  Transformed =>
    \A i \in Logged("For") :
      LET e == log[i]
          node == e.heap[e.node]
          var == e.heap[node.target].id
          args == [j \in 1..Len(e.heap[node.iter].args) |-> ReadBack(e.heap, e.heap[node.iter].args[j])]
          body == [j \in 1..Len(node.body) |-> ReadBack(e.heap, node.body[j])]
      IN IsRangeCall(e.heap, node.iter) =>
           /\ Len(e.ret) = 2
           /\ ReadBack(heap, e.ret[1]) = Assign(<<Name(var, "Store")>>, args[1])
           /\ ReadBack(heap, e.ret[2]) =
                While(Compare(Name(var, "Load"), <<"Lt">>, <<args[2]>>),
                      Append(body, Increment(var, args)), <<>>)

(* C3: visit_If, called on an If with a non-empty orelse, returns one If   *)
(* heading a linear chain: every orelse along the chain holds at most one  *)
(* entry, each entry of the original orelse is a link of the chain, and    *)
(* the head and every link keep the body they had.                         *)
C3_IfChain ==
  Transformed =>
    \A i \in Logged("If") :
      LET e == log[i]
          node == e.heap[e.node]
      IN Len(node.orelse) > 0 =>
           /\ Len(e.ret) = 1
           /\ heap[e.ret[1]].kind = "If"
           /\ heap[e.ret[1]].body = node.body
           /\ LET chain == ChainOf(heap, e.ret[1])
              IN /\ \A k \in 1..Len(chain) : Len(heap[chain[k]].orelse) <= 1
                 /\ \A j \in 1..Len(node.orelse) :
                      \E k \in 2..Len(chain) :
                        /\ heap[chain[k]].test = e.heap[node.orelse[j]].test
                        /\ heap[chain[k]].body = e.heap[node.orelse[j]].body

(* C5: in the While visit_For returns, every statement of the original     *)
(* body stands in its rewritten form (no floor division, no call of len,   *)
(* no multi-target assignment left in it), and the last statement is the   *)
(* increment as visit_For built it.                                        *)
IsRewritten(t) ==
  \A u \in SubTerms(t) :
    /\ ~IsFloorDiv(u)
    /\ ~IsLenCall(u)
    /\ ~(u.kind = "Assign" /\ Len(u.targets) > 1)

C5_BodyRewrittenFirst ==
  Transformed =>
    \A i \in Logged("For") :
      LET e == log[i]
          node == e.heap[e.node]
          var == e.heap[node.target].id
          args == [j \in 1..Len(e.heap[node.iter].args) |-> ReadBack(e.heap, e.heap[node.iter].args[j])]
          while == ReadBack(heap, e.ret[2])
      IN IsRangeCall(e.heap, node.iter) =>
           /\ while.kind = "While"
           /\ Len(while.body) >= Len(node.body) + 1
           /\ \A j \in 1..(Len(while.body) - 1) : IsRewritten(while.body[j])
           /\ LET last == while.body[Len(while.body)]
              IN IF Len(args) = 2
                 THEN last = AugAssign(Name(var, "Store"), "Add", Num("1"))
                 ELSE /\ last.kind = "Assign"
                      /\ last.targets = <<Name(var, "Store")>>
                      /\ last.value.kind = "BinOp"
                      /\ last.value.left = Name(var, "Load")
                      /\ last.value.op = "Add"

(* C6: on a program with no FunctionDef, a second run of the transformer   *)
(* on the tree of the first run returns that tree unchanged.               *)
C6_Idempotent ==
  (pc = "again" /\ ~HasKind(code, "FunctionDef")) =>
    /\ second.exc = NoExc
    /\ second.tree = compiled_code

(* C7: when the program holds a For whose iterable is not a range call of  *)
(* 2 or 3 arguments, or an If whose orelse holds a statement with no test  *)
(* and body of its own, compile_lua returns an error to its caller: no     *)
(* exception leaves it and it returns no rewritten tree.                   *)
IsRangeTerm(t) ==
  /\ t.kind = "Call"
  /\ t.func = Name("range", "Load")
  /\ Len(t.args) \in {2, 3}

ViolatesShape(t) ==
  \E u \in SubTerms(t) :
    \/ u.kind = "For" /\ ~IsRangeTerm(u.iter)
    \/ u.kind = "If" /\ \E j \in 1..Len(u.orelse) : ~HasTestAndBody(u.orelse[j].kind)

C7_ShapeErrorReturned ==
  (code # BadText /\ ViolatesShape(code)) =>
    /\ pc # "raised"
    /\ pc = "done" => outcome = "None"

(* C10: no floor division is left anywhere in the tree compile_lua         *)
(* returns (programs with a Return statement, which visit_Return does not  *)
(* descend into, left aside).                                              *)
C10_NoFloorDivLeft ==
  (pc = "done" /\ outcome = "code" /\ ~HasKind(code, "Return")) => ~HasFloorDiv(compiled_code)

====
